---------------------------- MODULE Spec2Model ----------------------------
(***************************************************************************)
(* A model of the Kalman filter (src/src/kalman.rs) and of the generic     *)
(* ring buffer (src/src/ring.rs).                                          *)
(*                                                                         *)
(* Numbers.  The filter works on f32.  The algebraic properties are        *)
(* checked over exact rationals: a number is a pair <<n, d>> of integers   *)
(* with d > 0 in lowest terms, and try_inverse answers None exactly when   *)
(* the determinant is zero, as nalgebra's closed forms for 1x1 and 2x2     *)
(* matrices do.  Rounding is therefore not part of those checks.           *)
(***************************************************************************)
EXTENDS Integers, Sequences, FiniteSets, TLC

VARIABLES
    filter,     \* the KalmanFilter instance: its five matrices
    current,    \* the caller's estimate: <<mean, covariance>>
    pc,         \* "idle" | "returned" | "panicked" (the process aborted)
    call,       \* the record of the call in progress or just returned
    calls,      \* number of calls made so far
    start,      \* the estimate the caller began with (history)
    ring,       \* the Ring<T, N>: buf, head, filled
    pushed,     \* every item pushed so far, in order (history)
    iter,       \* the RingIter in use: buf, left, right, finished; or NoIter
    snapshot,   \* the value of pushed when iter was created (history)
    yielded,    \* what the calls on iter returned: [end, item], in order
    filters,    \* several KalmanFilter instances, by instance number
    built,      \* the matrices each instance was constructed with (history)
    log,        \* the calls made on the instances, in order (history)
    alive       \* FALSE once a call has panicked

kvars == <<filter, current, pc, call, calls, start>>
rvars == <<ring, pushed, iter, snapshot, yielded>>
pvars == <<filters, built, log, alive>>

vars == <<kvars, rvars, pvars>>

(***************************************************************************)
(* Exact rational arithmetic                                               *)
(***************************************************************************)
Abs(x) == IF x < 0 THEN -x ELSE x

RECURSIVE Gcd(_, _)
Gcd(a, b) == IF b = 0 THEN a ELSE Gcd(b, a % b)

\* The rational n/d in lowest terms with a positive denominator.
Rat(n, d) ==
    LET g == Gcd(Abs(n), Abs(d))
        s == IF d < 0 THEN -1 ELSE 1
    IN  <<(s * n) \div g, (s * d) \div g>>

RInt(n) == <<n, 1>>
RZero == RInt(0)
ROne == RInt(1)
\* Sums go over the least common denominator and products cancel
\* crosswise first, so that intermediate values stay small.
RAdd(a, b) ==
    LET g == Gcd(a[2], b[2])
    IN  Rat(a[1] * (b[2] \div g) + b[1] * (a[2] \div g), (a[2] \div g) * b[2])
RNeg(a) == <<-a[1], a[2]>>
RSub(a, b) == RAdd(a, RNeg(b))
RMul(a, b) ==
    LET g1 == Gcd(Abs(a[1]), b[2])
        g2 == Gcd(Abs(b[1]), a[2])
    IN  Rat((a[1] \div g1) * (b[1] \div g2), (a[2] \div g2) * (b[2] \div g1))
RDiv(a, b) == RMul(a, Rat(b[2], b[1]))
RIsZero(a) == a[1] = 0

(***************************************************************************)
(* f32 arithmetic (IEEE 754 binary32, round to nearest, ties to even).  A  *)
(* number is <<sign, exponent, mantissa>> and stands for                   *)
(* (-1)^sign * mantissa * 2^exponent, with 2^23 <= mantissa < 2^24, or     *)
(* <<0, 0, 0>> for zero.  The exponent is not limited: overflow to         *)
(* infinity, subnormal numbers, NaN and the sign of zero are not modelled. *)
(***************************************************************************)
FZero == <<0, 0, 0>>

RECURSIVE BitLen(_)
BitLen(n) == IF n = 0 THEN 0 ELSE 1 + BitLen(n \div 2)

\* The f32 nearest to (-1)^sign * (sig + t) * 2^e, where 0 <= sig < 2^30,
\* and 0 < t < 1 if sticky and t = 0 otherwise.
FPack(sign, e, sig, sticky) ==
    IF sig = 0 THEN FZero
    ELSE LET nb == BitLen(sig)
         IN  IF nb <= 24 THEN <<sign, e - (24 - nb), sig * 2^(24 - nb)>>
             ELSE LET shift == nb - 24
                      m == sig \div 2^shift
                      rem == sig % 2^shift
                      half == 2^(shift - 1)
                      up == \/ rem > half
                            \/ rem = half /\ (sticky \/ m % 2 = 1)
                  IN  IF ~up THEN <<sign, e + shift, m>>
                      ELSE IF m + 1 = 2^24 THEN <<sign, e + shift + 1, 2^23>>
                      ELSE <<sign, e + shift, m + 1>>

\* The integer n, |n| < 2^30, as an f32.
FromInt(n) == FPack(IF n < 0 THEN 1 ELSE 0, 0, Abs(n), FALSE)

FNeg(a) == IF a[3] = 0 THEN a ELSE <<1 - a[1], a[2], a[3]>>
FAbs(a) == <<0, a[2], a[3]>>

\* a + b for non-zero a and b, the exponent of a not below that of b.
FAddOrdered(a, b) ==
    LET d == a[2] - b[2]
        X == a[3] * 32
        Y == IF d > 29 THEN 0 ELSE (b[3] * 32) \div 2^d
        sticky == IF d > 29 THEN TRUE ELSE (b[3] * 32) % 2^d # 0
    IN  IF a[1] = b[1] THEN FPack(a[1], a[2] - 5, X + Y, sticky)
        ELSE IF X >= Y
             THEN FPack(a[1], a[2] - 5, X - Y - (IF sticky THEN 1 ELSE 0), sticky)
             ELSE FPack(b[1], a[2] - 5, Y - X, FALSE)

FAdd(a, b) ==
    IF a[3] = 0 THEN b
    ELSE IF b[3] = 0 THEN a
    ELSE IF a[2] >= b[2] THEN FAddOrdered(a, b)
    ELSE FAddOrdered(b, a)

FSub(a, b) == FAdd(a, FNeg(b))

\* The 48-bit product of two mantissas goes in two halves of 24 bits.
FMul(a, b) ==
    IF a[3] = 0 \/ b[3] = 0 THEN FZero
    ELSE LET a1 == a[3] \div 4096
             a0 == a[3] % 4096
             b1 == b[3] \div 4096
             b0 == b[3] % 4096
             mid == a1 * b0 + a0 * b1
             t == a0 * b0 + (mid % 4096) * 4096
             lo == t % 2^24
             hi == a1 * b1 + mid \div 4096 + t \div 2^24
         IN  FPack((a[1] + b[1]) % 2, a[2] + b[2] + 19,
                   hi * 32 + lo \div 2^19, lo % 2^19 # 0)

\* n more binary digits of the quotient q with remainder r < mb.
RECURSIVE DivLoop(_, _, _, _)
DivLoop(q, r, mb, n) ==
    IF n = 0 THEN <<q, r>>
    ELSE LET bit == IF 2 * r >= mb THEN 1 ELSE 0
         IN  DivLoop(2 * q + bit, 2 * r - bit * mb, mb, n - 1)

\* a / b for b # 0.
FDiv(a, b) ==
    IF a[3] = 0 THEN FZero
    ELSE LET qr == DivLoop(a[3] \div b[3], a[3] % b[3], b[3], 27)
         IN  FPack((a[1] + b[1]) % 2, a[2] - b[2] - 27, qr[1], qr[2] # 0)

\* a < b
FLess(a, b) ==
    LET d == FSub(a, b) IN d[3] # 0 /\ d[1] = 1

(***************************************************************************)
(* Numbers: an f32 (three components) or an exact rational (two).  An      *)
(* operation with an f32 operand is the f32 operation, a rational operand  *)
(* being rounded to f32 first.                                             *)
(***************************************************************************)
IsF32(x) == Len(x) = 3
ToF32(x) == IF IsF32(x) THEN x ELSE FDiv(FromInt(x[1]), FromInt(x[2]))

Add(a, b) ==
    IF IsF32(a) \/ IsF32(b) THEN FAdd(ToF32(a), ToF32(b)) ELSE RAdd(a, b)
Sub(a, b) ==
    IF IsF32(a) \/ IsF32(b) THEN FSub(ToF32(a), ToF32(b)) ELSE RSub(a, b)
Mul(a, b) ==
    IF IsF32(a) \/ IsF32(b) THEN FMul(ToF32(a), ToF32(b)) ELSE RMul(a, b)
Div(a, b) ==
    IF IsF32(a) \/ IsF32(b) THEN FDiv(ToF32(a), ToF32(b)) ELSE RDiv(a, b)
Neg(a) == IF IsF32(a) THEN FNeg(a) ELSE RNeg(a)
IsZero(a) == IF IsF32(a) THEN a[3] = 0 ELSE RIsZero(a)

(***************************************************************************)
(* Statically sized matrices (nalgebra::SMatrix): a tuple of rows.  A      *)
(* vector is a matrix with one column.                                     *)
(***************************************************************************)
NRows(m) == Len(m)
NCols(m) == Len(m[1])

\* The r x c matrix with entry E(i, j) in row i and column j, as a tuple
\* of tuples (concatenation with the empty tuple makes the rows and the
\* matrix explicit tuples).
Matrix(r, c, E(_, _)) ==
    [i \in 1..r |-> [j \in 1..c |-> E(i, j)] \o <<>>] \o <<>>

\* A matrix of integers given as a tuple of rows.
Mat(rows) ==
    LET E(i, j) == RInt(rows[i][j]) IN Matrix(Len(rows), Len(rows[1]), E)

Zeros(r, c) == LET E(i, j) == RZero IN Matrix(r, c, E)
Identity(n) == LET E(i, j) == IF i = j THEN ROne ELSE RZero IN Matrix(n, n, E)
Transpose(m) == LET E(i, j) == m[j][i] IN Matrix(NCols(m), NRows(m), E)
MAdd(a, b) == LET E(i, j) == Add(a[i][j], b[i][j]) IN Matrix(NRows(a), NCols(a), E)
MSub(a, b) == LET E(i, j) == Sub(a[i][j], b[i][j]) IN Matrix(NRows(a), NCols(a), E)

RECURSIVE Dot(_, _, _, _, _)
Dot(a, b, i, j, k) ==
    IF k = 0 THEN RZero
    ELSE Add(Dot(a, b, i, j, k - 1), Mul(a[i][k], b[k][j]))

MMul(a, b) ==
    LET E(i, j) == Dot(a, b, i, j, NCols(a)) IN Matrix(NRows(a), NCols(b), E)

None == [is_some |-> FALSE]
Some(v) == [is_some |-> TRUE, value |-> v]

\* try_inverse with the off-diagonal entries of the 2x2 adjugate not negated.
TryInverseUnsigned(m) ==
    IF NRows(m) = 1 THEN
        IF IsZero(m[1][1]) THEN None
        ELSE Some(<<<<Div(ROne, m[1][1])>>>>)
    ELSE
        LET determinant == Sub(Mul(m[1][1], m[2][2]), Mul(m[2][1], m[1][2]))
        IN  IF IsZero(determinant) THEN None
            ELSE Some(<<
                <<Div(m[2][2], determinant), Div(m[1][2], determinant)>>,
                <<Div(m[2][1], determinant), Div(m[1][1], determinant)>> >>)

\* The inverse of the 2x2 matrix m whose determinant is given: the adjugate
\* divided by the determinant.
TryInverse2(m, determinant) ==
    IF IsZero(determinant) THEN None
    ELSE Some(<<
        <<Div(m[2][2], determinant), Div(Neg(m[1][2]), determinant)>>,
        <<Div(Neg(m[2][1]), determinant), Div(m[1][1], determinant)>> >>)

\* Matrix::try_inverse for a 1x1 or 2x2 matrix: None when the determinant
\* is zero, otherwise the closed form.
TryInverse(m) ==
    IF NRows(m) = 1 THEN
        IF IsZero(m[1][1]) THEN None
        ELSE Some(<<<<Div(ROne, m[1][1])>>>>)
    ELSE TryInverse2(m, Sub(Mul(m[1][1], m[2][2]), Mul(m[2][1], m[1][2])))

(***************************************************************************)
(* KalmanFilter<S, I, R>                                                   *)
(***************************************************************************)
\* KalmanFilter::new: the five matrices are stored as given.
new(prediction, measurement, control, sensor_noise, uncertainty) ==
    [prediction |-> prediction, measurement |-> measurement, control |-> control,
     sensor_noise |-> sensor_noise, uncertainty |-> uncertainty]

\* init adding no process noise to the covariance.
init_body_noiseless(self, previous) ==
    [panicked |-> FALSE,
     ret |-> <<MMul(self.prediction, previous[1]),
               MMul(MMul(self.prediction, previous[2]), Transpose(self.prediction))>>]

\* The body of KalmanFilter::init: the prediction cycle at t = 0.  It
\* takes no control input: the control matrix is multiplied by the zero
\* vector.
init_body(self, previous) ==
    LET previous_estimate == previous[1]
        previous_covariance == previous[2]
        next_estimate ==
            MAdd(MMul(self.prediction, previous_estimate),
                 MMul(self.control, Zeros(NCols(self.control), 1)))
        next_covariance ==
            MAdd(MMul(MMul(self.prediction, previous_covariance),
                      Transpose(self.prediction)),
                 self.uncertainty)
    IN  [panicked |-> FALSE, ret |-> <<next_estimate, next_covariance>>]

\* KalmanFilter::init as a call: self and the previous estimate are shared
\* borrows, and are when the call returns what they were.
init(self, previous) ==
    [self |-> self, previous |-> previous, out |-> init_body(self, previous)]

\* measurement * previous_covariance * measurement^T + sensor_noise, the
\* matrix next() inverts.
innovation_covariance(self, previous_covariance) ==
    MAdd(MMul(MMul(self.measurement, previous_covariance),
              Transpose(self.measurement)),
         self.sensor_noise)

\* The innovation taken to be the reading itself.
innovation_raw(self, previous_estimate, sensor_readings) == sensor_readings

\* sensor_readings - measurement * previous_estimate
innovation(self, previous_estimate, sensor_readings) ==
    MSub(sensor_readings, MMul(self.measurement, previous_estimate))

\* previous_covariance * measurement^T * inverse, when try_inverse()
\* returned Some(inverse).
unwrap_gain(self, previous_covariance, inverse) ==
    IF inverse.is_some
    THEN Some(MMul(MMul(previous_covariance, Transpose(self.measurement)),
                   inverse.value))
    ELSE None

\* let kalman_gain = previous_covariance * measurement^T
\*     * (innovation covariance).try_inverse().unwrap();
\* None stands for the panic of unwrap().
kalman_gain(self, previous_covariance) ==
    unwrap_gain(self, previous_covariance,
                TryInverse(innovation_covariance(self, previous_covariance)))

\* let current_estimate = previous_estimate + kalman_gain * (innovation);
current_estimate(self, previous_estimate, gain, sensor_readings) ==
    MAdd(previous_estimate,
         MMul(gain, innovation(self, previous_estimate, sensor_readings)))

\* let current_covariance = (identity - kalman_gain * measurement)
\*     * previous_covariance;
current_covariance(self, gain, previous_covariance) ==
    MMul(MSub(Identity(NRows(previous_covariance)), MMul(gain, self.measurement)),
         previous_covariance)

\* predicted_state leaving the control input out.
predicted_state_uncontrolled(self, estimate, inputs) ==
    MMul(self.prediction, estimate)

\* let predicted_state = prediction * current_estimate + control * inputs;
predicted_state(self, estimate, inputs) ==
    MAdd(MMul(self.prediction, estimate), MMul(self.control, inputs))

\* predicted_covariance with the second factor not transposed.
predicted_covariance_untransposed(self, covariance) ==
    MAdd(MMul(MMul(self.prediction, covariance), self.prediction),
         self.uncertainty)

\* let predicted_covariance =
\*     prediction * current_covariance * prediction^T + uncertainty;
predicted_covariance(self, covariance) ==
    MAdd(MMul(MMul(self.prediction, covariance), Transpose(self.prediction)),
         self.uncertainty)

\* next_body with the two stages exchanged: the prediction first, then the
\* correction, whose result is returned.
next_body_predict_first(self, previous, inputs, sensor_readings) ==
    LET state == predicted_state(self, previous[1], inputs)
        covariance == predicted_covariance(self, previous[2])
        gain == kalman_gain(self, covariance)
    IN  IF ~gain.is_some THEN [panicked |-> TRUE]
        ELSE [panicked |-> FALSE,
              kalman_gain |-> gain.value,
              current_estimate |->
                  current_estimate(self, state, gain.value, sensor_readings),
              current_covariance |->
                  current_covariance(self, gain.value, covariance),
              ret |-> <<current_estimate(self, state, gain.value, sensor_readings),
                        current_covariance(self, gain.value, covariance)>>]

\* The prediction stage of next (lines 81-83), with the values of the
\* correction stage that precede it.
next_predict(self, gain, estimate, covariance, inputs) ==
    [panicked |-> FALSE,
     kalman_gain |-> gain,
     current_estimate |-> estimate,
     current_covariance |-> covariance,
     ret |-> <<predicted_state(self, estimate, inputs),
               predicted_covariance(self, covariance)>>]

\* The correction stage of next (lines 75-79) with the Kalman gain of
\* lines 67-72, followed by the prediction stage; the call panics when
\* there is no gain.
next_correct(self, previous, inputs, sensor_readings, gain) ==
    IF ~gain.is_some THEN [panicked |-> TRUE]
    ELSE next_predict(self, gain.value,
                      current_estimate(self, previous[1], gain.value,
                                       sensor_readings),
                      current_covariance(self, gain.value, previous[2]),
                      inputs)

\* The body of KalmanFilter::next: the correction with the sensor reading,
\* then the prediction of the next state from the corrected estimate.
next_body(self, previous, inputs, sensor_readings) ==
    next_correct(self, previous, inputs, sensor_readings,
                 kalman_gain(self, previous[2]))

\* next updating the caller's estimate in place instead of returning a new
\* value beside it.
next_in_place(self, previous, inputs, sensor_readings) ==
    LET out == next_body(self, previous, inputs, sensor_readings)
    IN  [self |-> self,
         previous |-> IF out.panicked THEN previous ELSE out.ret,
         out |-> out]

\* next keeping the covariance it predicted in the filter.
next_remembering(self, previous, inputs, sensor_readings) ==
    LET out == next_body(self, previous, inputs, sensor_readings)
    IN  [self |-> IF out.panicked THEN self
                  ELSE [self EXCEPT !.uncertainty = out.ret[2]],
         previous |-> previous,
         out |-> out]

\* KalmanFilter::next as a call: self and the previous estimate are shared
\* borrows, and are when the call returns (or panics) what they were.
next(self, previous, inputs, sensor_readings) ==
    [self |-> self, previous |-> previous,
     out |-> next_body(self, previous, inputs, sensor_readings)]

(***************************************************************************)
(* Bounds and inputs                                                       *)
(***************************************************************************)
MaxCalls == 3

\* A constant-velocity tracker with one position sensor (the shape of the
\* rocket model of test_kalman_filter_works, with a unit time step).
RocketFilter ==
    new(Mat(<<<<1, 1>>, <<0, 1>>>>), Mat(<<<<1, 0>>>>), Mat(<<<<1>>, <<2>>>>),
        Mat(<<<<1>>>>), Mat(<<<<1, 1>>, <<1, 2>>>>))

\* A noiseless sensor on a static process: with no state uncertainty in
\* the measured component the innovation covariance is the zero matrix.
NoiselessFilter ==
    new(Identity(2), Mat(<<<<1, 0>>>>), Mat(<<<<0>>, <<1>>>>),
        Mat(<<<<0>>>>), Zeros(2, 2))

\* Two sensors, one per state variable, with correlated noise.
TwoSensorFilter ==
    new(Mat(<<<<1, 1>>, <<0, 1>>>>), Identity(2), Mat(<<<<0>>, <<1>>>>),
        Mat(<<<<2, 1>>, <<1, 2>>>>), Identity(2))

Filters == {RocketFilter, NoiselessFilter, TwoSensorFilter}

Means == {Mat(<<<<0>>, <<0>>>>), Mat(<<<<1>>, <<2>>>>)}
Covariances == {Zeros(2, 2), Identity(2), Mat(<<<<2, 1>>, <<1, 2>>>>)}
Estimates == Means \X Covariances

\* Control inputs (I = 1).
Inputs == {Mat(<<<<0>>>>), Mat(<<<<1>>>>)}

\* Sensor readings for a filter with R sensors: a constant vector, or the
\* reading the estimate's mean predicts exactly.
SensorValues == {0, 3}
Readings(self, estimate) ==
    {LET E(i, j) == RInt(v) IN Matrix(NRows(self.measurement), 1, E) :
        v \in SensorValues}
        \cup {MMul(self.measurement, estimate[1])}

NoCall == [op |-> "none"]

(***************************************************************************)
(* The caller's loop: current = filter.init(&current), then                *)
(* current = filter.next(&current, &input, &readings) once per tick.       *)
(***************************************************************************)
KalmanInit ==
    /\ filter \in Filters
    /\ current \in Estimates
    /\ pc = "idle"
    /\ call = NoCall
    /\ calls = 0
    /\ start = current

\* A specification that makes no filter calls leaves these as they are.
KalmanUnused ==
    /\ filter = RocketFilter
    /\ current = <<Zeros(2, 1), Zeros(2, 2)>>
    /\ pc = "idle"
    /\ call = NoCall
    /\ calls = 0
    /\ start = current

\* filter.init(&current) at a tick whose control input is inputs.
CallInit(inputs) ==
    /\ pc = "idle"
    /\ \E r \in {init(filter, current)} :
           /\ filter' = r.self
           /\ current' = r.previous
           /\ call' = [op |-> "init", self |-> filter, previous |-> current,
                       inputs |-> inputs, result |-> r.out]
    /\ pc' = "returned"
    /\ calls' = calls + 1
    /\ UNCHANGED start

\* filter.next(&current, &inputs, &sensor_readings).
CallNext(inputs, sensor_readings) ==
    /\ pc = "idle"
    /\ \E r \in {next(filter, current, inputs, sensor_readings)} :
           /\ filter' = r.self
           /\ current' = r.previous
           /\ call' = [op |-> "next", self |-> filter, previous |-> current,
                       inputs |-> inputs, sensor_readings |-> sensor_readings,
                       result |-> r.out]
           /\ pc' = IF r.out.panicked THEN "panicked" ELSE "returned"
    /\ calls' = calls + 1
    /\ UNCHANGED start

\* current = <the returned estimate>.
Store ==
    /\ pc = "returned"
    /\ current' = call.result.ret
    /\ pc' = "idle"
    /\ UNCHANGED <<filter, call, calls, start>>

KalmanNext ==
    \/ calls < MaxCalls /\ \E u \in Inputs : CallInit(u)
    \/ calls < MaxCalls /\ \E u \in Inputs :
           \E z \in Readings(filter, current) : CallNext(u, z)
    \/ Store

(***************************************************************************)
(* test_kalman_filter_works: the rocket with constant acceleration, in     *)
(* f32.  A decimal literal is the f32 nearest to it.                       *)
(***************************************************************************)
Lit(n, d) == FDiv(FromInt(n), FromInt(d))

delta_t == Lit(25, 100)

prediction == <<<<FromInt(1), delta_t>>, <<FZero, FromInt(1)>>>>

control == <<<<FMul(FMul(Lit(5, 10), delta_t), delta_t)>>, <<delta_t>>>>

measurement == <<<<FromInt(1), FZero>>>>

\* Matrix2::new(0.25 dt^4, 0.5 dt^3, 0.5 dt^3, dt^2) * 0.01
estimate_uncertainty ==
    LET dt2 == FMul(delta_t, delta_t)
        a == FMul(FMul(FMul(FMul(Lit(25, 100), delta_t), delta_t), delta_t), delta_t)
        b == FMul(FMul(FMul(Lit(5, 10), delta_t), delta_t), delta_t)
        E(i, j) == FMul(<<<<a, b>>, <<b, dt2>>>>[i][j], Lit(1, 100))
    IN  Matrix(2, 2, E)

sensor_noise == <<<<FromInt(400)>>>>

ScenarioFilter ==
    new(prediction, measurement, control, sensor_noise, estimate_uncertainty)

\* The initial state variances tried; the test's is 500.
InitialVariances == {500, 5000}

InitialEstimate(variance) ==
    <<<<<<FZero>>, <<FZero>>>>,
      <<<<FromInt(variance), FZero>>, <<FZero, FromInt(variance)>>>>>>

\* frames, in hundredths: the acceleration (before gravity is taken off)
\* and the altitude reading.
Frames == <<
    <<3981, 643>>, <<3967, 130>>, <<3981, 3943>>, <<3984, 4589>>,
    <<4005, 4144>>, <<3985, 4870>>, <<3978, 7806>>, <<3965, 8008>>,
    <<3967, 6177>>, <<3978, 7515>>, <<3959, 11039>>, <<3987, 12783>>,
    <<3985, 15875>>, <<3959, 15655>>, <<3984, 21332>>, <<3990, 22982>>,
    <<3963, 26280>>, <<3959, 29757>>, <<3976, 33569>>, <<3979, 36792>>,
    <<3973, 37719>>, <<3993, 41118>>, <<3983, 46070>>, <<3985, 46839>>,
    <<3994, 55390>>, <<3986, 58397>>, <<3976, 65515>>, <<3986, 72309>>,
    <<3974, 73685>>, <<3994, 78722>> >>

\* Vector1::new(a - 9.81)
FrameInput(i) == <<<<FSub(Lit(Frames[i][1], 100), Lit(981, 100))>>>>
FrameReading(i) == <<<<Lit(Frames[i][2], 100)>>>>

ScenarioInit ==
    /\ filter = ScenarioFilter
    /\ \E v \in InitialVariances : current = InitialEstimate(v)
    /\ pc = "idle"
    /\ call = NoCall
    /\ calls = 0
    /\ start = current

\* current = filter.init(&current); then, for each frame,
\* current = filter.next(&current, &input, &readings).
ScenarioNext ==
    \/ calls = 0 /\ CallInit(Zeros(1, 1))
    \/ calls \in 1..Len(Frames) /\ CallNext(FrameInput(calls), FrameReading(calls))
    \/ Store

(***************************************************************************)
(* Ring<T, N> and RingIter<T, N>, with T = i32.  Indices are those of the  *)
(* source (from 0); buf[i] of the source is buf[i + 1] here.               *)
(***************************************************************************)
MaxN == 3           \* capacities 0..MaxN
MaxPushes == 5      \* pushes per behaviour
MaxNone == 2        \* calls on an exhausted iterator per behaviour
Items == {1, 2}     \* the values pushed; T::default() is 0

N(self) == Len(self.buf)

\* Ring::default (Ring::new): N default items, head 0, not filled.
default(n) == [buf |-> [i \in 1..n |-> 0], head |-> 0, filled |-> FALSE]

\* push testing head for 0 before it is advanced.
push_test_before_advance(self, item) ==
    IF N(self) = 0 THEN self
    ELSE [buf |-> [self.buf EXCEPT ![self.head + 1] = item],
          head |-> (self.head + 1) % N(self),
          filled |-> IF self.head = 0 THEN TRUE ELSE self.filled]

\* Ring::push
push(self, item) ==
    IF N(self) = 0 THEN self
    ELSE LET head == (self.head + 1) % N(self)
         IN  [buf |-> [self.buf EXCEPT ![self.head + 1] = item],
              head |-> head,
              filled |-> IF head = 0 THEN TRUE ELSE self.filled]

\* Ring::is_saturated
is_saturated(self) == self.filled

\* len answering head also for a filled buffer.
len_head(self) == self.head

\* Ring::len
len(self) == IF self.filled THEN N(self) ELSE self.head

\* is_empty looking at head alone.
is_empty_head(self) == self.head = 0

\* Ring::is_empty
is_empty(self) == ~self.filled /\ self.head = 0

\* into_iter starting at index 0 also for a filled buffer.
into_iter_from_zero(self) ==
    [buf |-> self.buf,
     left |-> 0,
     right |-> IF N(self) = 0 THEN 0 ELSE (N(self) + self.head - 1) % N(self),
     finished |-> is_empty(self)]

\* IntoIterator for &Ring: the iterator owns a copy of buf.
into_iter(self) ==
    [buf |-> self.buf,
     left |-> IF self.filled THEN self.head ELSE 0,
     right |-> IF N(self) = 0 THEN 0 ELSE (N(self) + self.head - 1) % N(self),
     finished |-> is_empty(self)]

\* next comparing left with right after left is advanced.
iter_next_late_compare(self) ==
    IF self.finished THEN [self |-> self, ret |-> None]
    ELSE [self |-> [self EXCEPT
                       !.finished = IF (self.left + 1) % N(self) = self.right
                                    THEN TRUE ELSE @,
                       !.left = (self.left + 1) % N(self)],
          ret |-> Some(self.buf[self.left + 1])]

\* RingIter::next: the iterator after the call and the Option returned.
iter_next(self) ==
    IF self.finished THEN [self |-> self, ret |-> None]
    ELSE [self |-> [self EXCEPT
                       !.finished = IF self.left = self.right THEN TRUE ELSE @,
                       !.left = (self.left + 1) % N(self)],
          ret |-> Some(self.buf[self.left + 1])]

\* next_back not wrapping right around from 0 to N - 1.
iter_next_back_no_wrap(self) ==
    IF self.finished THEN [self |-> self, ret |-> None]
    ELSE [self |-> [self EXCEPT
                       !.finished = IF self.left = self.right THEN TRUE ELSE @,
                       !.right = IF self.right = 0 THEN 0 ELSE self.right - 1],
          ret |-> Some(self.buf[self.right + 1])]

\* RingIter::next_back
iter_next_back(self) ==
    IF self.finished THEN [self |-> self, ret |-> None]
    ELSE [self |-> [self EXCEPT
                       !.finished = IF self.left = self.right THEN TRUE ELSE @,
                       !.right = IF self.right = 0 THEN N(self) - 1
                                 ELSE self.right - 1],
          ret |-> Some(self.buf[self.right + 1])]

NoIter == [buf |-> <<>>, left |-> 0, right |-> 0, finished |-> TRUE, none |-> TRUE]

RingInit ==
    /\ \E n \in 0..MaxN : ring = default(n)
    /\ pushed = <<>>
    /\ iter = NoIter
    /\ snapshot = <<>>
    /\ yielded = <<>>

\* A specification that uses no ring leaves these as they are.
RingUnused ==
    /\ ring = default(0)
    /\ pushed = <<>>
    /\ iter = NoIter
    /\ snapshot = <<>>
    /\ yielded = <<>>

\* ring.push(item)
Push(item) ==
    /\ Len(pushed) < MaxPushes
    /\ ring' = push(ring, item)
    /\ pushed' = Append(pushed, item)
    /\ UNCHANGED <<iter, snapshot, yielded>>

\* let mut iter = ring.into_iter();
IntoIter ==
    /\ iter' = into_iter(ring)
    /\ snapshot' = pushed
    /\ yielded' = <<>>
    /\ UNCHANGED <<ring, pushed>>

NoneCount == Cardinality({i \in 1..Len(yielded) : ~yielded[i].item.is_some})

\* iter.next()
IterNext ==
    /\ iter # NoIter
    /\ NoneCount < MaxNone
    /\ LET r == iter_next(iter)
       IN  /\ iter' = r.self
           /\ yielded' = Append(yielded, [end |-> "front", item |-> r.ret])
    /\ UNCHANGED <<ring, pushed, snapshot>>

\* iter.next_back()
IterNextBack ==
    /\ iter # NoIter
    /\ NoneCount < MaxNone
    /\ LET r == iter_next_back(iter)
       IN  /\ iter' = r.self
           /\ yielded' = Append(yielded, [end |-> "back", item |-> r.ret])
    /\ UNCHANGED <<ring, pushed, snapshot>>

RingNext ==
    \/ \E item \in Items : Push(item)
    \/ IntoIter
    \/ IterNext
    \/ IterNextBack

(***************************************************************************)
(* Several filter instances called with estimates the caller holds, in any *)
(* order, each call recorded.                                              *)
(***************************************************************************)
MaxLog == 3         \* calls per behaviour
Instances == {1, 2}

\* The filters of the two instances.
FilterPairs ==
    {<<RocketFilter, RocketFilter>>, <<TwoSensorFilter, RocketFilter>>,
     <<NoiselessFilter, NoiselessFilter>>}

\* The estimates the caller passes.
HeldEstimates ==
    {<<Mat(<<<<1>>, <<2>>>>), Identity(2)>>, <<Zeros(2, 1), Zeros(2, 2)>>}

HeldInputs == {Mat(<<<<1>>>>)}

HeldReadings(self) ==
    {LET E(i, j) == RInt(v) IN Matrix(NRows(self.measurement), 1, E) :
        v \in SensorValues}

PureInit ==
    /\ filters \in FilterPairs
    /\ built = filters
    /\ log = <<>>
    /\ alive = TRUE

\* A specification that uses one filter only leaves these as they are.
PureUnused ==
    /\ filters = <<RocketFilter, RocketFilter>>
    /\ built = filters
    /\ log = <<>>
    /\ alive = TRUE

\* filters[i].init(&estimate)
InstanceInit(i, estimate) ==
    /\ alive
    /\ Len(log) < MaxLog
    /\ \E r \in {init(filters[i], estimate)} :
           /\ filters' = [filters EXCEPT ![i] = r.self]
           /\ log' = Append(log, [op |-> "init", instance |-> i, model |-> built[i],
                                  estimate |-> estimate, inputs |-> <<>>,
                                  sensor_readings |-> <<>>, out |-> r.out])
    /\ UNCHANGED <<built, alive>>

\* filters[i].next(&estimate, &inputs, &sensor_readings)
InstanceNext(i, estimate, inputs, sensor_readings) ==
    /\ alive
    /\ Len(log) < MaxLog
    /\ \E r \in {next(filters[i], estimate, inputs, sensor_readings)} :
           /\ filters' = [filters EXCEPT ![i] = r.self]
           /\ log' = Append(log, [op |-> "next", instance |-> i, model |-> built[i],
                                  estimate |-> estimate, inputs |-> inputs,
                                  sensor_readings |-> sensor_readings,
                                  out |-> r.out])
           /\ alive' = ~r.out.panicked
    /\ UNCHANGED built

PureNext ==
    \/ \E i \in Instances : \E e \in HeldEstimates : InstanceInit(i, e)
    \/ \E i \in Instances : \E e \in HeldEstimates : \E u \in HeldInputs :
           \E z \in HeldReadings(filters[i]) : InstanceNext(i, e, u, z)

(***************************************************************************)
(* Specifications                                                          *)
(***************************************************************************)
Init == KalmanInit /\ RingUnused /\ PureUnused

Next == KalmanNext /\ UNCHANGED <<rvars, pvars>>

\* The caller's loop over one KalmanFilter.
Spec == Init /\ [][Next]_vars

InitRing == RingInit /\ KalmanUnused /\ PureUnused

NextRing == RingNext /\ UNCHANGED <<kvars, pvars>>

\* One Ring and one RingIter over it.
SpecRing == InitRing /\ [][NextRing]_vars

InitCalls == PureInit /\ KalmanUnused /\ RingUnused

NextCalls == PureNext /\ UNCHANGED <<kvars, rvars>>

\* Calls in any order on two filter instances.
SpecCalls == InitCalls /\ [][NextCalls]_vars

InitScenario == ScenarioInit /\ RingUnused /\ PureUnused

NextScenario == ScenarioNext /\ UNCHANGED <<rvars, pvars>>

\* test_kalman_filter_works.
SpecScenario == InitScenario /\ [][NextScenario]_vars

\* The filter computes in f32 (the rocket scenario) or in exact arithmetic.
ComputesInF32 == IsF32(filter.prediction[1][1])

InitSymmetry == (KalmanInit \/ ScenarioInit) /\ RingUnused /\ PureUnused

NextSymmetry ==
    /\ \/ ~ComputesInF32 /\ KalmanNext
       \/ ComputesInF32 /\ ScenarioNext
    /\ UNCHANGED <<rvars, pvars>>

\* The caller's loop over one KalmanFilter, in exact arithmetic with any
\* calls or in f32 with the calls of test_kalman_filter_works.
SpecSymmetry == InitSymmetry /\ [][NextSymmetry]_vars

(***************************************************************************)
(* The estimator operations as the specification words them                *)
(***************************************************************************)
Det(m) ==
    IF NRows(m) = 1 THEN m[1][1]
    ELSE RSub(RMul(m[1][1], m[2][2]), RMul(m[1][2], m[2][1]))

Invertible(m) == ~RIsZero(Det(m))

\* The inverse of an invertible 1x1 or 2x2 matrix, by Cramer's rule.
Inverse(m) ==
    IF NRows(m) = 1 THEN <<<<RDiv(ROne, m[1][1])>>>>
    ELSE LET E(i, j) ==
                 RDiv(IF i = j THEN m[3 - i][3 - j] ELSE RNeg(m[i][j]), Det(m))
         IN  Matrix(2, 2, E)

\* H * P * H^T + sensor_noise
InnovationCovariance(model, estimate) ==
    MAdd(MMul(MMul(model.measurement, estimate[2]), Transpose(model.measurement)),
         model.sensor_noise)

Ok(v) == [ok |-> TRUE, value |-> v]
Err(e) == [ok |-> FALSE, error |-> e]

SpecPredict(model, estimate, control_input) ==
    <<MAdd(MMul(model.prediction, estimate[1]), MMul(model.control, control_input)),
      MAdd(MMul(MMul(model.prediction, estimate[2]), Transpose(model.prediction)),
           model.uncertainty)>>

SpecCorrect(model, predicted, reading) ==
    IF ~Invertible(InnovationCovariance(model, predicted))
    THEN Err("SingularCovariance")
    ELSE LET gain == MMul(MMul(predicted[2], Transpose(model.measurement)),
                          Inverse(InnovationCovariance(model, predicted)))
         IN  Ok(<<MAdd(predicted[1],
                       MMul(gain, MSub(reading,
                                       MMul(model.measurement, predicted[1])))),
                  MSub(predicted[2],
                       MMul(MMul(gain, model.measurement), predicted[2]))>>)

SpecStep(model, estimate, control_input, reading) ==
    SpecCorrect(model, SpecPredict(model, estimate, control_input), reading)

IsZeroMatrix(m) == m = Zeros(NRows(m), NCols(m))

NextCalled == call.op = "next"
InitCalled == call.op = "init"
NextReturned == NextCalled /\ pc # "panicked" /\ ~call.result.panicked

\* The call ended with an explicit SingularCovariance error result.
ReturnedSingularCovariance ==
    /\ pc # "panicked"
    /\ "error" \in DOMAIN call.result
    /\ call.result.error = "SingularCovariance"

(***************************************************************************)
(* Claims                                                                  *)
(***************************************************************************)

\* C1: when the innovation covariance H * P * H^T + sensor_noise of a next()
\* call is singular, the call returns an explicit SingularCovariance error:
\* it neither panics nor returns an estimate.
C1_SingularCovarianceIsReported ==
    (NextCalled /\ ~Invertible(InnovationCovariance(call.self, call.previous)))
        => ReturnedSingularCovariance

\* C2 (as stated): the fused per-tick operation equals correct after
\* predict: next(e, u, z) = correct(predict(e, u), z).
C2_StepIsPredictThenCorrect ==
    NextReturned =>
        LET s == SpecStep(call.self, call.previous, call.inputs,
                          call.sensor_readings)
        IN  s.ok /\ call.result.ret = s.value

\* C2 (amended): a next() call that returns equals predict after correct:
\* the reading is fused into the estimate passed in, the corrected estimate
\* is then advanced with the control input, and the advanced (predicted)
\* estimate is returned.
C2_NextIsCorrectThenPredict ==
    NextReturned =>
        LET c == SpecCorrect(call.self, call.previous, call.sensor_readings)
        IN  c.ok /\ call.result.ret = SpecPredict(call.self, c.value, call.inputs)

\* A next() call has returned for which the two orders give different
\* estimates.
C2_Witness ==
    /\ NextReturned
    /\ pc = "returned"
    /\ ~IsZeroMatrix(call.result.kalman_gain)
    /\ ~IsZeroMatrix(MMul(call.self.control, call.inputs))
    /\ LET s == SpecStep(call.self, call.previous, call.inputs,
                         call.sensor_readings)
       IN  s.ok /\ s.value # call.result.ret

\* C3 (as stated): the stand-alone prediction returns
\* mean' = prediction * mean + control * u for the control input u supplied
\* at that tick.
C3_PredictUsesControlInput ==
    InitCalled =>
        call.result.ret = SpecPredict(call.self, call.previous, call.inputs)

\* C3 (amended): init, the stand-alone prediction, takes no control input
\* and returns mean' = prediction * mean (the control matrix meets the zero
\* vector) and covariance' = prediction * covariance * prediction^T +
\* uncertainty, and it cannot fail; the supplied control input contributes
\* only in the prediction stage of next, which returns
\* prediction * corrected_mean + control * u with the same covariance form.
C3_InitPredictsWithoutControl ==
    /\ InitCalled =>
        /\ pc # "panicked"
        /\ ~call.result.panicked
        /\ call.result.ret[1] = MMul(call.self.prediction, call.previous[1])
        /\ call.result.ret[2] =
               MAdd(MMul(MMul(call.self.prediction, call.previous[2]),
                         Transpose(call.self.prediction)),
                    call.self.uncertainty)
    /\ NextReturned =>
        call.result.ret =
            SpecPredict(call.self,
                        <<call.result.current_estimate, call.result.current_covariance>>,
                        call.inputs)

\* init has returned at a tick whose control input would have moved the mean.
C3_Witness ==
    /\ InitCalled
    /\ pc = "returned"
    /\ ~IsZeroMatrix(MMul(call.self.control, call.inputs))
    /\ ~IsZeroMatrix(call.self.uncertainty)
    /\ ~IsZeroMatrix(call.previous[1])

\* C4: with an invertible innovation covariance S = H * P * H^T +
\* sensor_noise the correction of next computes the gain K with
\* K * S = P * H^T (K = P * H^T * inverse(S)), the corrected mean
\* mean + K * (z - H * mean) and the corrected covariance
\* P - K * H * P = (I - K * H) * P.
C4_CorrectionFormulas ==
    (NextCalled /\ Invertible(InnovationCovariance(call.self, call.previous))) =>
        /\ NextReturned
        /\ LET H == call.self.measurement
               mean == call.previous[1]
               P == call.previous[2]
               K == call.result.kalman_gain
           IN  /\ MMul(K, InnovationCovariance(call.self, call.previous)) =
                      MMul(P, Transpose(H))
               /\ K = MMul(MMul(P, Transpose(H)),
                           Inverse(InnovationCovariance(call.self, call.previous)))
               /\ call.result.current_estimate =
                      MAdd(mean, MMul(K, MSub(call.sensor_readings, MMul(H, mean))))
               /\ call.result.current_covariance = MSub(P, MMul(MMul(K, H), P))
               /\ call.result.current_covariance =
                      MMul(MSub(Identity(NRows(P)), MMul(K, H)), P)

\* A correction with two sensors (a 2x2 inversion with off-diagonal
\* entries) that moved the mean and shrank the covariance.
C4_Witness ==
    /\ NextReturned
    /\ NRows(call.self.measurement) = 2
    /\ ~RIsZero(InnovationCovariance(call.self, call.previous)[1][2])
    /\ call.result.current_estimate # call.previous[1]
    /\ call.result.current_covariance # call.previous[2]

\* C5: zero-innovation idempotence: when the reading equals
\* measurement * mean and the innovation covariance is invertible, the
\* corrected mean is the mean passed in.
C5_ZeroInnovationKeepsMean ==
    ( /\ NextCalled
      /\ call.sensor_readings = MMul(call.self.measurement, call.previous[1])
      /\ Invertible(InnovationCovariance(call.self, call.previous)) ) =>
        /\ NextReturned
        /\ call.result.current_estimate = call.previous[1]

\* A zero-innovation correction with a non-zero reading and a non-zero gain.
C5_Witness ==
    /\ NextReturned
    /\ call.sensor_readings = MMul(call.self.measurement, call.previous[1])
    /\ ~IsZeroMatrix(call.sensor_readings)
    /\ ~IsZeroMatrix(MMul(call.result.kalman_gain, call.sensor_readings))

\* C6: when an init or next call has returned or panicked, the filter's
\* five matrices and the estimate that was passed in are what they were
\* before the call; the result is a value beside them.
C6_InputsUnmodified ==
    pc \in {"returned", "panicked"} =>
        /\ filter = call.self
        /\ current = call.previous

\* A next() call has returned an estimate that differs from the one passed
\* in, which the caller still holds.
C6_Witness ==
    /\ NextReturned
    /\ pc = "returned"
    /\ call.result.ret # call.previous
    /\ current = call.previous

\* Two recorded calls are the same operation on equal Model, Estimate,
\* control input and measurement.
SameCall(a, b) ==
    /\ a.op = b.op
    /\ a.model = b.model
    /\ a.estimate = b.estimate
    /\ a.inputs = b.inputs
    /\ a.sensor_readings = b.sensor_readings

\* C7: two calls of the same operation with equal (Model, Estimate,
\* control, measurement) end alike (the same panic, or the same estimate),
\* whatever calls were made in between, on the same or on another
\* instance.
C7_EqualInputsEqualResults ==
    \A i, j \in 1..Len(log) :
        SameCall(log[i], log[j]) =>
            /\ log[i].out.panicked = log[j].out.panicked
            /\ ~log[i].out.panicked => log[i].out.ret = log[j].out.ret

\* The same next() call was made twice on one instance with a different
\* next() call on that instance in between, and all returned.
C7_Witness ==
    /\ Len(log) >= 3
    /\ log[1].op = "next"
    /\ SameCall(log[1], log[3])
    /\ log[1].instance = log[3].instance
    /\ log[2].instance = log[1].instance
    /\ log[2].op = "next"
    /\ ~SameCall(log[1], log[2])
    /\ ~log[3].out.panicked
    /\ log[3].out.ret # log[3].estimate

\* |x - target| < 0.1 in f32, as the test asserts it.
Within(x, target) == FLess(FAbs(FSub(x, target)), Lit(1, 10))

\* The published run is through: the rocket filter, the initial estimate
\* with variance 500, init and then one next per frame, the last result
\* stored.
ScenarioDone ==
    /\ filter = ScenarioFilter
    /\ start = InitialEstimate(500)
    /\ calls = Len(Frames) + 1
    /\ pc = "idle"

\* C8: convergence scenario A: after the published run the mean has
\* altitude within 0.1 of 851.9 and velocity within 0.1 of 223.2.
C8_RocketConverges ==
    ScenarioDone =>
        /\ Within(current[1][1][1], Lit(8519, 10))
        /\ Within(current[1][2][1], Lit(2232, 10))

\* The published run is through, all 30 frames fed, and the altitude
\* variance has come down from 500.
C8_Witness ==
    /\ ScenarioDone
    /\ Len(Frames) = 30
    /\ call.op = "next"
    /\ call.sensor_readings = FrameReading(30)
    /\ FLess(current[2][1][1], FromInt(500))

IsSymmetric(m) ==
    \A i \in 1..NRows(m) : \A j \in 1..NCols(m) : m[i][j] = m[j][i]

\* Two f32 values differ by at most 2^-20 of the first; two exact values
\* are equal.
SymmetryTolerance == Lit(1, 1048576)
Close(a, b) ==
    IF IsF32(a) /\ IsF32(b)
    THEN ~FLess(FMul(FAbs(a), SymmetryTolerance), FAbs(FSub(a, b)))
    ELSE a = b

IsSymmetricUpToRounding(m) ==
    \A i \in 1..NRows(m) : \A j \in 1..NCols(m) : Close(m[i][j], m[j][i])

\* The filter's noise matrices and the covariance the caller started from
\* are symmetric.
SymmetricInputs ==
    /\ IsSymmetric(filter.uncertainty)
    /\ IsSymmetric(filter.sensor_noise)
    /\ IsSymmetric(start[2])

\* C15 as stated: from a symmetric covariance and symmetric noise
\* matrices, the covariance the caller holds, the covariance a call
\* returns and the corrected covariance inside next are symmetric.
C15_CovarianceSymmetric ==
    SymmetricInputs =>
        /\ IsSymmetric(current[2])
        /\ pc = "returned" => IsSymmetric(call.result.ret[2])
        /\ (pc = "returned" /\ NextCalled) =>
               IsSymmetric(call.result.current_covariance)

\* C15 amended: from a symmetric covariance and symmetric noise matrices,
\* these covariances are symmetric in exact arithmetic, and in f32
\* symmetric up to rounding: mirrored entries differ by at most 2^-20 of
\* their size.
C15_CovarianceSymmetricUpToRounding ==
    SymmetricInputs =>
        /\ IsSymmetricUpToRounding(current[2])
        /\ pc = "returned" => IsSymmetricUpToRounding(call.result.ret[2])
        /\ (pc = "returned" /\ NextCalled) =>
               IsSymmetricUpToRounding(call.result.current_covariance)

\* next has returned, in f32, a covariance whose mirrored entries differ
\* in the last places, from a symmetric start.
C15_Witness ==
    /\ SymmetricInputs
    /\ ComputesInF32
    /\ pc = "returned"
    /\ NextCalled
    /\ ~IsSymmetric(call.result.ret[2])
    /\ ~IsZero(call.result.ret[2][1][2])
    /\ IsSymmetricUpToRounding(call.result.ret[2])

(***************************************************************************)
(* Ring claims                                                             *)
(***************************************************************************)
Min(a, b) == IF a < b THEN a ELSE b

\* The last n items of the sequence s.
LastItems(s, n) == SubSeq(s, Len(s) - n + 1, Len(s))

\* What the buffer holds after the pushes in s: the last min(k, N) items.
Stored(s, n) == LastItems(s, Min(Len(s), n))

OnlyFront == \A i \in 1..Len(yielded) : yielded[i].end = "front"

\* C9: for N >= 1, the j-th next() on an iterator that is only used
\* forwards returns the j-th of the last min(k, N) items pushed before the
\* iterator was made, oldest first, and None once these are through.
C9_ForwardIterationOrder ==
    (iter # NoIter /\ N(iter) >= 1 /\ OnlyFront) =>
        LET stored == Stored(snapshot, N(iter))
        IN  \A j \in 1..Len(yielded) :
                yielded[j].item =
                    IF j <= Len(stored) THEN Some(stored[j]) ELSE None

\* A wrapped-around buffer (more pushes than N, head not at 0) has been
\* iterated forwards to the end and has returned None.
C9_Witness ==
    /\ iter # NoIter
    /\ N(iter) >= 2
    /\ OnlyFront
    /\ Len(snapshot) > N(iter)
    /\ Len(snapshot) % N(iter) # 0
    /\ Len(yielded) = N(iter) + 1
    /\ ~yielded[Len(yielded)].item.is_some
    /\ yielded[1].item # yielded[2].item

\* C10: after k pushes len() is min(k, N).
C10_LenIsMinOfPushesAndCapacity ==
    len(ring) = Min(Len(pushed), N(ring))

\* A buffer of capacity at least 2 that was pushed to after it was filled.
C10_Witness ==
    /\ N(ring) >= 2
    /\ Len(pushed) > N(ring)
    /\ ring.head # 0
    /\ len(ring) = N(ring)

OnlyBack == \A i \in 1..Len(yielded) : yielded[i].end = "back"

\* C11: for N >= 1, the j-th next_back() on an iterator that is only used
\* backwards returns the j-th from the end of the last min(k, N) items
\* pushed before the iterator was made, newest first (the forward order
\* reversed), and None once these are through.
C11_ReverseIterationOrder ==
    (iter # NoIter /\ N(iter) >= 1 /\ OnlyBack) =>
        LET stored == Stored(snapshot, N(iter))
        IN  \A j \in 1..Len(yielded) :
                yielded[j].item =
                    IF j <= Len(stored) THEN Some(stored[Len(stored) - j + 1])
                    ELSE None

\* A wrapped-around buffer (more pushes than N, head not at 0) has been
\* iterated backwards to the end, right going around from 0 to N - 1, and
\* has returned None.
C11_Witness ==
    /\ iter # NoIter
    /\ N(iter) >= 2
    /\ OnlyBack
    /\ Len(snapshot) > N(iter)
    /\ Len(snapshot) % N(iter) # 0
    /\ Len(yielded) = N(iter) + 1
    /\ ~yielded[Len(yielded)].item.is_some
    /\ yielded[1].item # yielded[2].item

\* The number of calls before the j-th that were made at the given end.
CallsBefore(j, end) == Cardinality({i \in 1..(j - 1) : yielded[i].end = end})

\* C12: for N >= 1 and any interleaving of next() and next_back(), the
\* first min(k, N) calls return the stored items, next() the oldest and
\* next_back() the newest not yet returned (so each item exactly once),
\* and every later call returns None.
C12_InterleavedEachItemOnce ==
    (iter # NoIter /\ N(iter) >= 1) =>
        LET stored == Stored(snapshot, N(iter))
        IN  \A j \in 1..Len(yielded) :
                yielded[j].item =
                    IF j > Len(stored) THEN None
                    ELSE IF yielded[j].end = "front"
                         THEN Some(stored[CallsBefore(j, "front") + 1])
                         ELSE Some(stored[Len(stored) - CallsBefore(j, "back")])

\* A wrapped-around buffer of three items has been iterated from both
\* ends, the last item taken where the ends met, and each end has then
\* returned None.
C12_Witness ==
    /\ iter # NoIter
    /\ N(iter) = 3
    /\ Len(snapshot) > N(iter)
    /\ Len(snapshot) % N(iter) # 0
    /\ Len(yielded) = 5
    /\ yielded[1].end = "front"
    /\ yielded[2].end = "back"
    /\ yielded[3].end = "front"
    /\ yielded[4].end = "back"
    /\ yielded[5].end = "front"
    /\ yielded[3].item.is_some
    /\ ~yielded[4].item.is_some
    /\ ~yielded[5].item.is_some

\* C13: for N >= 1, is_empty() is true exactly when nothing has been
\* pushed since construction, and exactly when len() is 0.
C13_EmptyIffNoPush ==
    N(ring) >= 1 =>
        /\ is_empty(ring) <=> Len(pushed) = 0
        /\ is_empty(ring) <=> len(ring) = 0

\* A buffer whose head has come back to 0 after pushes is not empty.
C13_Witness ==
    /\ N(ring) >= 2
    /\ Len(pushed) = N(ring)
    /\ ring.head = 0
    /\ ~is_empty(ring)

\* C14: for N >= 1, is_saturated() is true exactly from the N-th push
\* on, and exactly when len() is N.
C14_SaturatedFromNthPush ==
    N(ring) >= 1 =>
        /\ is_saturated(ring) <=> Len(pushed) >= N(ring)
        /\ is_saturated(ring) <=> len(ring) = N(ring)

\* A buffer of capacity at least 2 is saturated and has been pushed to
\* since it was filled.
C14_Witness ==
    /\ N(ring) >= 2
    /\ Len(pushed) > N(ring)
    /\ ring.head # 0
    /\ is_saturated(ring)

=============================================================================
